---- MODULE Spec2Model ----
(***************************************************************************)
(* Model of the tech-blog documentation site: the theme-configuration      *)
(* definitions, the LogoWithThumbnail component, the MDX pages served by   *)
(* the file-based router, and page renders that read the configuration.    *)
(*                                                                         *)
(* JavaScript strings whose content matters (URLs, footer text, file       *)
(* paths) are sequences of one-character strings, so that the shape of a   *)
(* string is computed and not assumed.  The character (c) U+00A9 is        *)
(* written "U+00A9".  A React element is a record                          *)
(*   [type, props, children]; a text child is [type |-> "#text", text].    *)
(***************************************************************************)
EXTENDS Integers, Sequences, FiniteSets, TLC

VARIABLES loaded, config, route, matched, pc, local, ret, out

vars == << loaded, config, route, matched, pc, local, ret, out >>

(* Number of page renders that may be in flight at once. *)
NumRenders == 2

Renders == 1..NumRenders

None == [type |-> "#none"]

(***************************************************************************)
(* Strings                                                                 *)
(***************************************************************************)
Letters ==
    { "a", "b", "c", "d", "e", "f", "g", "h", "i", "j", "k", "l", "m",
      "n", "o", "p", "q", "r", "s", "t", "u", "v", "w", "x", "y", "z",
      "A", "B", "C", "D", "E", "F", "G", "H", "I", "J", "K", "L", "M",
      "N", "O", "P", "Q", "R", "S", "T", "U", "V", "W", "X", "Y", "Z" }

Digits == { "0", "1", "2", "3", "4", "5", "6", "7", "8", "9" }

SchemeChars == Letters \cup Digits \cup { "+", "-", "." }

(* s is an absolute URL: scheme ":" "//" followed by a non-empty authority. *)
IsAbsoluteUrl(s) ==
    \E i \in 2..Len(s) :
        /\ s[1] \in Letters
        /\ \A j \in 1..(i - 1) : s[j] \in SchemeChars
        /\ s[i] = ":"
        /\ Len(s) >= i + 3
        /\ s[i + 1] = "/"
        /\ s[i + 2] = "/"
        /\ s[i + 3] \notin { "/", "?", "#" }

HasSuffix(s, suf) ==
    /\ Len(s) >= Len(suf)
    /\ SubSeq(s, Len(s) - Len(suf) + 1, Len(s)) = suf

(***************************************************************************)
(* React elements                                                          *)
(***************************************************************************)
NoProps == [n \in {} |-> None]

Element(type, props, children) ==
    [type |-> type, props |-> props, children |-> children]

Text(t) == [type |-> "#text", text |-> t]

HostTags == { "span", "b", "img" }

AvatarUrl ==
    << "h", "t", "t", "p", "s", ":", "/", "/", "a", "v", "a", "t", "a", "r", "s", ".", "g",
       "i", "t", "h", "u", "b", "u", "s", "e", "r", "c", "o", "n", "t", "e", "n", "t", ".",
       "c", "o", "m", "/", "u", "/", "1", "0", "7", "3", "7", "0", "4", "4", "?", "v", "=",
       "4" >>

(* AvatarImg with a height that differs from its width. *)
AvatarImgOval ==
    Element("img",
        [ src   |-> AvatarUrl,
          style |-> [ width        |-> "50px",
                      height       |-> "40px",
                      borderRadius |-> "50%",
                      marginRight  |-> "8px",
                      objectFit    |-> "cover",
                      border       |-> "3px" ] ],
        << >>)

(* The <img> of LogoWithThumbnail. *)
AvatarImg ==
    Element("img",
        [ src   |-> AvatarUrl,
          style |-> [ width        |-> "50px",
                      height       |-> "50px",
                      borderRadius |-> "50%",
                      marginRight  |-> "8px",
                      objectFit    |-> "cover",
                      border       |-> "3px" ] ],
        << >>)

(* NameSpan with another font size than the inline logo. *)
NameSpanLarge ==
    Element("span",
        [ style |-> [ fontSize |-> "x-large" ] ],
        << Element("b", NoProps, << Text("Athar Faridi") >>) >>)

(* The <span> of LogoWithThumbnail. *)
NameSpan ==
    Element("span",
        [ style |-> [ fontSize |-> "xx-large" ] ],
        << Element("b", NoProps, << Text("Athar Faridi") >>) >>)

(* LogoWithThumbnail with the two children in the other order. *)
LogoWithThumbnailSwapped ==
    Element("Fragment", NoProps, << NameSpan, AvatarImg >>)

(* LogoWithThumbnail showing the image only until some render is done: a   *)
(* component that reads a flag kept outside its body.                      *)
LogoWithThumbnailOnce ==
    IF \E q \in Renders : pc[q] = "done"
    THEN Element("Fragment", NoProps, << NameSpan >>)
    ELSE Element("Fragment", NoProps, << AvatarImg, NameSpan >>)

(* LogoWithThumbnail leaving the image out while another render is also    *)
(* rendering: a component whose output depends on the other renders.       *)
LogoWithThumbnailBusy ==
    IF Cardinality({ q \in Renders : pc[q] = "render" }) > 1
    THEN Element("Fragment", NoProps, << NameSpan >>)
    ELSE Element("Fragment", NoProps, << AvatarImg, NameSpan >>)

(* src/components/LogoWithThumbnail.tsx: a function of no parameters whose *)
(* body is one return statement: a fragment of the image and the span.     *)
LogoWithThumbnail ==
    Element("Fragment", NoProps, << AvatarImg, NameSpan >>)

(* The components a module can import, by the name of their default export. *)
Components == { "LogoWithThumbnail" }

Normal(v) == [kind |-> "normal", value |-> v]

Throw(e) == [kind |-> "throw", value |-> Text(e)]

(* Calling component c: the function runs to its return statement; a name  *)
(* that is bound to no component is not callable.                          *)
CallComponent(c) ==
    IF c = "LogoWithThumbnail" THEN Normal(LogoWithThumbnail) ELSE Throw("TypeError")

(* e can be handed to the renderer: a host element, a fragment, a text     *)
(* node or an element of a known component, with renderable children.      *)
RECURSIVE IsRenderable(_)
IsRenderable(e) ==
    /\ "type" \in DOMAIN e
    /\ \/ e.type = "#text" /\ "text" \in DOMAIN e
       \/ /\ e.type \in HostTags \cup Components \cup { "Fragment" }
          /\ DOMAIN e = { "type", "props", "children" }
          /\ \A i \in 1..Len(e.children) : IsRenderable(e.children[i])

(* Rendering an element: an element of a component type is replaced by the *)
(* value the component returns, any other element is kept as written.      *)
RenderElement(e) ==
    IF e.type \in Components THEN CallComponent(e.type).value ELSE e

(***************************************************************************)
(* Theme-configuration definitions                                         *)
(***************************************************************************)
GithubUrl ==
    << "h", "t", "t", "p", "s", ":", "/", "/", "g", "i", "t", "h", "u", "b", ".", "c", "o",
       "m", "/", "a", "t", "h", "a", "r", "e", "f", "a", "r", "i", "d", "i" >>

WhatsAppUrl ==
    << "h", "t", "t", "p", "s", ":", "/", "/", "w", "a", ".", "m", "e", "/", "3", "5", "1",
       "9", "3", "3", "4", "4", "2", "0", "4", "4" >>

DiscordUrl ==
    << "h", "t", "t", "p", "s", ":", "/", "/", "d", "i", "s", "c", "o", "r", "d", ".", "c",
       "o", "m" >>

PortfolioText ==
    << "A", "t", "h", "a", "r", " ", "F", "a", "r", "i", "d", "i", " ", "P", "o", "r", "t",
       "f", "o", "l", "i", "o" >>

CopyrightText ==
    << "2", "0", "1", "6", "-", "2", "0", "2", "4", " ", "U+00A9", "a", "t", "h", "a", "r", "f",
       "a", "r", "i", "d", "i" >>

InlineLogo ==
    Element("span",
        [ style |-> [ fontSize |-> "xx-large" ] ],
        << Element("b", NoProps, << Text("Athar Faridi") >>) >>)

RelativeGithubUrl ==
    << "g", "i", "t", "h", "u", "b", ".", "c", "o", "m", "/", "a", "t", "h", "a", "r", "e",
       "f", "a", "r", "i", "d", "i" >>

(* ThemeConfig1 with the scheme left off docsRepositoryBase. *)
ThemeConfig1RelativeBase ==
    [ logo               |-> InlineLogo,
      project            |-> [ link |-> GithubUrl ],
      chat               |-> [ link |-> WhatsAppUrl ],
      docsRepositoryBase |-> RelativeGithubUrl,
      footer             |-> [ text |-> PortfolioText ] ]

(* src/theme.config.tsx, first definition. *)
ThemeConfig1 ==
    [ logo               |-> InlineLogo,
      project            |-> [ link |-> GithubUrl ],
      chat               |-> [ link |-> WhatsAppUrl ],
      docsRepositoryBase |-> GithubUrl,
      footer             |-> [ text |-> PortfolioText ] ]

(* ThemeConfig2 with docsRepositoryBase left at another URL than the        *)
(* project link.                                                           *)
ThemeConfig2OtherBase ==
    [ logo               |-> InlineLogo,
      project            |-> [ link |-> GithubUrl ],
      chat               |-> [ link |-> DiscordUrl ],
      docsRepositoryBase |-> DiscordUrl,
      footer             |-> [ text |-> PortfolioText ] ]

(* ThemeConfig2 with a sidebar entry added. *)
ThemeConfig2WithSidebar ==
    [ logo               |-> InlineLogo,
      project            |-> [ link |-> GithubUrl ],
      chat               |-> [ link |-> DiscordUrl ],
      docsRepositoryBase |-> GithubUrl,
      sidebar            |-> [ defaultMenuCollapseLevel |-> 1 ],
      footer             |-> [ text |-> PortfolioText ] ]

(* src/theme.config.tsx, second definition. *)
ThemeConfig2 ==
    [ logo               |-> InlineLogo,
      project            |-> [ link |-> GithubUrl ],
      chat               |-> [ link |-> DiscordUrl ],
      docsRepositoryBase |-> GithubUrl,
      footer             |-> [ text |-> PortfolioText ] ]

(* HostingConfig with a head entry added. *)
HostingConfigWithHead ==
    [ logo   |-> Element("LogoWithThumbnail", NoProps, << >>),
      head   |-> Element("Fragment", NoProps, << >>),
      footer |-> [ text |-> CopyrightText ] ]

(* src/pages/blazor/hosting.mdx, the definition at the end of the page. *)
HostingConfig ==
    [ logo   |-> Element("LogoWithThumbnail", NoProps, << >>),
      footer |-> [ text |-> CopyrightText ] ]

Definitions == { "theme.config.tsx:4", "theme.config.tsx:23", "hosting.mdx:120" }

ThemeDefinitions == { "theme.config.tsx:4", "theme.config.tsx:23" }

(* The object literal a definition assigns to config. *)
ConfigLiteral(d) ==
    CASE d = "theme.config.tsx:4"  -> ThemeConfig1
      [] d = "theme.config.tsx:23" -> ThemeConfig2
      [] d = "hosting.mdx:120"     -> HostingConfig

(***************************************************************************)
(* Loading a theme-configuration module                                    *)
(***************************************************************************)
(* Imports with the import of LogoWithThumbnail left out of hosting.mdx. *)
ImportsWithoutLogo(d) ==
    CASE d = "theme.config.tsx:4"  -> { "React" }
      [] d = "theme.config.tsx:23" -> { "React" }
      [] d = "hosting.mdx:120"     -> { "React" }

(* The default imports of the module text that holds definition d. *)
Imports(d) ==
    CASE d = "theme.config.tsx:4"  -> { "React" }
      [] d = "theme.config.tsx:23" -> { "React" }
      [] d = "hosting.mdx:120"     -> { "React", "LogoWithThumbnail" }

(* The component names element e and its descendants use as element type. *)
RECURSIVE ComponentsUsed(_)
ComponentsUsed(e) ==
    IF e.type = "#text"
    THEN { }
    ELSE (IF e.type \in HostTags \cup { "Fragment" } THEN { } ELSE { e.type })
         \cup UNION { ComponentsUsed(e.children[i]) : i \in 1..Len(e.children) }

(* The identifiers the object literal of definition d refers to: React for *)
(* its JSX, and every component the logo names.                            *)
References(d) == { "React" } \cup ComponentsUsed(ConfigLiteral(d).logo)

(* Evaluating the module text of definition d: the literal is built when   *)
(* every identifier it refers to is bound, else the reference throws.      *)
EvalModule(d) ==
    IF References(d) \subseteq Imports(d)
    THEN Normal(ConfigLiteral(d))
    ELSE Throw("ReferenceError")

(***************************************************************************)
(* Pages and routes                                                        *)
(***************************************************************************)
Page_advance_javascript_oops_oldway_vs_new_way ==
    << "a", "d", "v", "a", "n", "c", "e", "-", "j", "a", "v", "a", "s", "c", "r", "i", "p",
       "t", "/", "o", "o", "p", "s", "-", "o", "l", "d", "w", "a", "y", "-", "v", "s", "-",
       "n", "e", "w", "-", "w", "a", "y", ".", "m", "d", "x" >>

Page_advance_javascript_oops ==
    << "a", "d", "v", "a", "n", "c", "e", "-", "j", "a", "v", "a", "s", "c", "r", "i", "p",
       "t", "/", "o", "o", "p", "s", ".", "m", "d", "x" >>

Page_blazor_common_errors_blazor ==
    << "b", "l", "a", "z", "o", "r", "/", "c", "o", "m", "m", "o", "n", "-", "e", "r", "r",
       "o", "r", "s", "-", "b", "l", "a", "z", "o", "r", ".", "m", "d", "x" >>

Page_blazor_hosting ==
    << "b", "l", "a", "z", "o", "r", "/", "h", "o", "s", "t", "i", "n", "g", ".", "m", "d",
       "x" >>

Page_docker_security_practices_docker ==
    << "d", "o", "c", "k", "e", "r", "/", "s", "e", "c", "u", "r", "i", "t", "y", "-", "p",
       "r", "a", "c", "t", "i", "c", "e", "s", "-", "d", "o", "c", "k", "e", "r", ".", "m",
       "d", "x" >>

Page_dotnetcore_aspnetcore_mvc_vs_aspnetcore_api ==
    << "d", "o", "t", "n", "e", "t", "c", "o", "r", "e", "/", "a", "s", "p", "n", "e", "t",
       "c", "o", "r", "e", "-", "m", "v", "c", "-", "v", "s", "-", "a", "s", "p", "n", "e",
       "t", "c", "o", "r", "e", "-", "a", "p", "i", ".", "m", "d", "x" >>

Page_dotnetcore_asynch_razor_pages ==
    << "d", "o", "t", "n", "e", "t", "c", "o", "r", "e", "/", "a", "s", "y", "n", "c", "h",
       "-", "r", "a", "z", "o", "r", "-", "p", "a", "g", "e", "s", ".", "m", "d", "x" >>

Page_dotnetcore_best_practices_middleware ==
    << "d", "o", "t", "n", "e", "t", "c", "o", "r", "e", "/", "b", "e", "s", "t", "-", "p",
       "r", "a", "c", "t", "i", "c", "e", "s", "-", "m", "i", "d", "d", "l", "e", "w", "a",
       "r", "e", ".", "m", "d", "x" >>

Page_dotnetcore_coreapivsaspapi ==
    << "d", "o", "t", "n", "e", "t", "c", "o", "r", "e", "/", "c", "o", "r", "e", "a", "p",
       "i", "v", "s", "a", "s", "p", "a", "p", "i", ".", "m", "d", "x" >>

Page_dotnetcore_corevsclassic ==
    << "d", "o", "t", "n", "e", "t", "c", "o", "r", "e", "/", "c", "o", "r", "e", "v", "s",
       "c", "l", "a", "s", "s", "i", "c", ".", "m", "d", "x" >>

Page_dotnetcore_debugging_middleware ==
    << "d", "o", "t", "n", "e", "t", "c", "o", "r", "e", "/", "d", "e", "b", "u", "g", "g",
       "i", "n", "g", "-", "m", "i", "d", "d", "l", "e", "w", "a", "r", "e", ".", "m", "d",
       "x" >>

Page_dotnetcore_dependency_injection ==
    << "d", "o", "t", "n", "e", "t", "c", "o", "r", "e", "/", "d", "e", "p", "e", "n", "d",
       "e", "n", "c", "y", "-", "i", "n", "j", "e", "c", "t", "i", "o", "n", ".", "m", "d",
       "x" >>

Page_dotnetcore_optimizing_routing ==
    << "d", "o", "t", "n", "e", "t", "c", "o", "r", "e", "/", "o", "p", "t", "i", "m", "i",
       "z", "i", "n", "g", "-", "r", "o", "u", "t", "i", "n", "g", ".", "m", "d", "x" >>

Page_dotnetcore_razor_pages ==
    << "d", "o", "t", "n", "e", "t", "c", "o", "r", "e", "/", "r", "a", "z", "o", "r", "-",
       "p", "a", "g", "e", "s", ".", "m", "d", "x" >>

Page_dotnetcore_routing_constraints ==
    << "d", "o", "t", "n", "e", "t", "c", "o", "r", "e", "/", "r", "o", "u", "t", "i", "n",
       "g", "-", "c", "o", "n", "s", "t", "r", "a", "i", "n", "t", "s", ".", "m", "d", "x" >>

Page_dotnetcore_routing ==
    << "d", "o", "t", "n", "e", "t", "c", "o", "r", "e", "/", "r", "o", "u", "t", "i", "n",
       "g", ".", "m", "d", "x" >>

Page_dotnetcore_startup_class ==
    << "d", "o", "t", "n", "e", "t", "c", "o", "r", "e", "/", "s", "t", "a", "r", "t", "u",
       "p", "-", "c", "l", "a", "s", "s", ".", "m", "d", "x" >>

Page_dotnetcore_taghelpers ==
    << "d", "o", "t", "n", "e", "t", "c", "o", "r", "e", "/", "t", "a", "g", "h", "e", "l",
       "p", "e", "r", "s", ".", "m", "d", "x" >>

Page_dotnetcore_testing_asynch_code ==
    << "d", "o", "t", "n", "e", "t", "c", "o", "r", "e", "/", "t", "e", "s", "t", "i", "n",
       "g", "-", "a", "s", "y", "n", "c", "h", "-", "c", "o", "d", "e", ".", "m", "d", "x" >>

Page_github_git_rebase ==
    << "g", "i", "t", "h", "u", "b", "/", "g", "i", "t", "-", "r", "e", "b", "a", "s", "e",
       ".", "m", "d", "x" >>

Page_github_index ==
    << "g", "i", "t", "h", "u", "b", "/", "i", "n", "d", "e", "x", ".", "m", "d", "x" >>

Page_github_merge_vs_rebase ==
    << "g", "i", "t", "h", "u", "b", "/", "m", "e", "r", "g", "e", "-", "v", "s", "-", "r",
       "e", "b", "a", "s", "e", ".", "m", "d", "x" >>

Page_nextjs_getStaticProps_vs_getServerSideProps ==
    << "n", "e", "x", "t", "j", "s", "/", "g", "e", "t", "S", "t", "a", "t", "i", "c", "P",
       "r", "o", "p", "s", "-", "v", "s", "-", "g", "e", "t", "S", "e", "r", "v", "e", "r",
       "S", "i", "d", "e", "P", "r", "o", "p", "s", ".", "m", "d", "x" >>

Page_nextjs_middleware_nextjs ==
    << "n", "e", "x", "t", "j", "s", "/", "m", "i", "d", "d", "l", "e", "w", "a", "r", "e",
       "-", "n", "e", "x", "t", "j", "s", ".", "m", "d", "x" >>

Page_nextjs_ssr_vs_isr ==
    << "n", "e", "x", "t", "j", "s", "/", "s", "s", "r", "-", "v", "s", "-", "i", "s", "r",
       ".", "m", "d", "x" >>

GithubMdx ==
    << "g", "i", "t", "h", "u", "b", ".", "m", "d", "x" >>

(* Pages with a file github.mdx beside the directory github. *)
PagesWithGithubMdx ==
    { GithubMdx,
      Page_advance_javascript_oops_oldway_vs_new_way,
      Page_advance_javascript_oops,
      Page_blazor_common_errors_blazor,
      Page_blazor_hosting,
      Page_docker_security_practices_docker,
      Page_dotnetcore_aspnetcore_mvc_vs_aspnetcore_api,
      Page_dotnetcore_asynch_razor_pages,
      Page_dotnetcore_best_practices_middleware,
      Page_dotnetcore_coreapivsaspapi,
      Page_dotnetcore_corevsclassic,
      Page_dotnetcore_debugging_middleware,
      Page_dotnetcore_dependency_injection,
      Page_dotnetcore_optimizing_routing,
      Page_dotnetcore_razor_pages,
      Page_dotnetcore_routing_constraints,
      Page_dotnetcore_routing,
      Page_dotnetcore_startup_class,
      Page_dotnetcore_taghelpers,
      Page_dotnetcore_testing_asynch_code,
      Page_github_git_rebase,
      Page_github_index,
      Page_github_merge_vs_rebase,
      Page_nextjs_getStaticProps_vs_getServerSideProps,
      Page_nextjs_middleware_nextjs,
      Page_nextjs_ssr_vs_isr }

(* The MDX files under src/pages, each by its path below pages. *)
Pages ==
    { Page_advance_javascript_oops_oldway_vs_new_way,
      Page_advance_javascript_oops,
      Page_blazor_common_errors_blazor,
      Page_blazor_hosting,
      Page_docker_security_practices_docker,
      Page_dotnetcore_aspnetcore_mvc_vs_aspnetcore_api,
      Page_dotnetcore_asynch_razor_pages,
      Page_dotnetcore_best_practices_middleware,
      Page_dotnetcore_coreapivsaspapi,
      Page_dotnetcore_corevsclassic,
      Page_dotnetcore_debugging_middleware,
      Page_dotnetcore_dependency_injection,
      Page_dotnetcore_optimizing_routing,
      Page_dotnetcore_razor_pages,
      Page_dotnetcore_routing_constraints,
      Page_dotnetcore_routing,
      Page_dotnetcore_startup_class,
      Page_dotnetcore_taghelpers,
      Page_dotnetcore_testing_asynch_code,
      Page_github_git_rebase,
      Page_github_index,
      Page_github_merge_vs_rebase,
      Page_nextjs_getStaticProps_vs_getServerSideProps,
      Page_nextjs_middleware_nextjs,
      Page_nextjs_ssr_vs_isr }

MdxExt == << ".", "m", "d", "x" >>

IndexName == << "i", "n", "d", "e", "x" >>

StripSuffix(s, suf) ==
    IF HasSuffix(s, suf) THEN SubSeq(s, 1, Len(s) - Len(suf)) ELSE s

(* The route of page file f: the path below pages without the extension,   *)
(* an index file standing for its directory; routes start with "/".        *)
Route(f) ==
    LET noExt == StripSuffix(f, MdxExt)
        path  == IF noExt = IndexName
                 THEN << >>
                 ELSE StripSuffix(noExt, << "/" >> \o IndexName)
    IN  << "/" >> \o path

(* The value of route before any request: no route is the empty string. *)
NoRoute == << >>

(* The page files the router finds for a requested route. *)
Resolve(url) == { f \in Pages : Route(f) = url }

(***************************************************************************)
(* State                                                                   *)
(*   loaded   "none", the definition whose module was loaded, or "error"   *)
(*   config   the default export of the loaded module                      *)
(*   route    the route last requested; matched: the page files found      *)
(*   pc[r]    position of render r: idle, read, render, done, error        *)
(*   local[r] the configuration render r has read                          *)
(*   ret[r]   what the component call made by render r returned            *)
(*   out[r]   the output of render r                                       *)
(***************************************************************************)
Null == [type |-> "#null"]

Init ==
    /\ loaded = "none"
    /\ config = None
    /\ route = NoRoute
    /\ matched = { }
    /\ pc = [r \in Renders |-> "idle"]
    /\ local = [r \in Renders |-> None]
    /\ ret = [r \in Renders |-> None]
    /\ out = [r \in Renders |-> None]

(* LoadModule that evaluates a module again after one was loaded. *)
LoadModuleAgain(d) ==
    /\ loaded /= "error"
    /\ loaded /= d
    /\ LET c == EvalModule(d)
       IN  IF c.kind = "normal"
           THEN loaded' = d /\ config' = c.value
           ELSE loaded' = "error" /\ config' = None
    /\ UNCHANGED << route, matched, pc, local, ret, out >>

(* The framework loads the module of one definition, once: a module is     *)
(* evaluated one time and its const binding is never assigned again.       *)

LoadModule(d) ==
    /\ loaded = "none"
    /\ LET c == EvalModule(d)
       IN  IF c.kind = "normal"
           THEN loaded' = d /\ config' = c.value
           ELSE loaded' = "error" /\ config' = None
    /\ UNCHANGED << route, matched, pc, local, ret, out >>

(* A request for the route of page file f. *)
Navigate(f) ==
    /\ route' = Route(f)
    /\ matched' = Resolve(Route(f))
    /\ route' /= route
    /\ UNCHANGED << loaded, config, pc, local, ret, out >>

(* Render r starts rendering the requested page. *)
Start(r) ==
    /\ pc[r] = "idle"
    /\ loaded \in Definitions
    /\ matched /= { }
    /\ pc' = [pc EXCEPT ![r] = "read"]
    /\ UNCHANGED << loaded, config, route, matched, local, ret, out >>

(* Render r reads the theme configuration. *)
ReadConfig(r) ==
    /\ pc[r] = "read"
    /\ local' = [local EXCEPT ![r] = config]
    /\ pc' = [pc EXCEPT ![r] = "render"]
    /\ UNCHANGED << loaded, config, route, matched, ret, out >>

(* Render r renders the logo it read, calling the component the logo names *)
(* when it names one, and puts it beside the footer text.                  *)
RenderLogo(r) ==
    /\ pc[r] = "render"
    /\ LET logo == local[r].logo
           c    == IF logo.type \in HostTags \cup { "Fragment" }
                   THEN Normal(logo)
                   ELSE CallComponent(logo.type)
       IN  /\ ret' = [ret EXCEPT ![r] =
                        IF logo.type \in HostTags \cup { "Fragment" } THEN None ELSE c]
           /\ IF c.kind = "normal"
              THEN /\ out' = [out EXCEPT ![r] =
                                [logo |-> c.value, footer |-> local[r].footer.text]]
                   /\ pc' = [pc EXCEPT ![r] = "done"]
              ELSE /\ out' = out
                   /\ pc' = [pc EXCEPT ![r] = "error"]
    /\ UNCHANGED << loaded, config, route, matched, local >>

(* Render r is over; its slot serves the next render. *)
Finish(r) ==
    /\ pc[r] = "done"
    /\ pc' = [pc EXCEPT ![r] = "idle"]
    /\ local' = [local EXCEPT ![r] = None]
    /\ ret' = [ret EXCEPT ![r] = None]
    /\ out' = [out EXCEPT ![r] = None]
    /\ UNCHANGED << loaded, config, route, matched >>

Next ==
    \/ \E d \in Definitions : LoadModule(d)
    \/ \E f \in Pages : Navigate(f)
    \/ \E r \in Renders : Start(r)
    \/ \E r \in Renders : ReadConfig(r)
    \/ \E r \in Renders : RenderLogo(r)
    \/ \E r \in Renders : Finish(r)

Spec == Init /\ [][Next]_vars

(***************************************************************************)
(* Properties of the theme-configuration definitions                       *)
(***************************************************************************)
ContractFields == { "logo", "footer", "docsRepositoryBase", "project", "chat" }

(* c has a renderable logo and a non-empty footer text. *)
HasLogoAndFooter(c) ==
    /\ { "logo", "footer" } \subseteq DOMAIN c
    /\ IsRenderable(c.logo)
    /\ "text" \in DOMAIN c.footer
    /\ Len(c.footer.text) > 0

(* c sets docsRepositoryBase, project.link and chat.link to absolute URLs. *)
HasAbsoluteLinks(c) ==
    /\ { "docsRepositoryBase", "project", "chat" } \subseteq DOMAIN c
    /\ IsAbsoluteUrl(c.docsRepositoryBase)
    /\ "link" \in DOMAIN c.project
    /\ IsAbsoluteUrl(c.project.link)
    /\ "link" \in DOMAIN c.chat
    /\ IsAbsoluteUrl(c.chat.link)

(* C1 as stated: whichever definition is loaded, config exposes logo,      *)
(* footer.text, docsRepositoryBase, project.link and chat.link, the logo a *)
(* renderable element, the footer text non-empty, the three links          *)
(* absolute URLs.                                                          *)
C1_EveryDefinitionExposesAllFields ==
    loaded \in Definitions =>
        /\ ContractFields \subseteq DOMAIN config
        /\ HasLogoAndFooter(config)
        /\ HasAbsoluteLinks(config)

(* C1 amended: every definition sets a renderable logo and a non-empty     *)
(* footer.text; the two definitions of src/theme.config.tsx also set       *)
(* docsRepositoryBase, project.link and chat.link to absolute URLs, while  *)
(* the definition in hosting.mdx sets logo and footer and nothing else.    *)
C1_FieldsByDefinition ==
    loaded \in Definitions =>
        /\ HasLogoAndFooter(config)
        /\ loaded \in ThemeDefinitions =>
               /\ DOMAIN config = ContractFields
               /\ HasAbsoluteLinks(config)
        /\ loaded = "hosting.mdx:120" => DOMAIN config = { "logo", "footer" }

(* A render holds the configuration of the first definition of             *)
(* src/theme.config.tsx, read after the module was loaded.                 *)
C1_Witness ==
    /\ loaded = "theme.config.tsx:4"
    /\ \E r \in Renders : pc[r] = "render" /\ local[r] = config

C3_HeadIsRenderable ==
    loaded \in Definitions =>
        /\ "head" \in DOMAIN config
        /\ IsRenderable(config.head)

(* C3 amended: no definition sets head, so the configuration a render      *)
(* reads never holds a head element; the meta tags are left to the         *)
(* framework.                                                              *)
C3_NoHeadField ==
    /\ loaded \in Definitions => "head" \notin DOMAIN config
    /\ \A r \in Renders : local[r] /= None => "head" \notin DOMAIN local[r]

(* A render has read the configuration of the definition in hosting.mdx.   *)
C3_Witness ==
    /\ loaded = "hosting.mdx:120"
    /\ \E r \in Renders : pc[r] = "render" /\ local[r] = config

(***************************************************************************)
(* Properties of LogoWithThumbnail                                         *)
(***************************************************************************)
BoldName == Element("b", NoProps, << Text("Athar Faridi") >>)

(* C4: every call of LogoWithThumbnail returns, never null, a fragment of  *)
(* exactly two children: first an <img> whose src is the avatar URL, then  *)
(* a <span> whose only child is the bold name "Athar Faridi".              *)
C4_LogoReturnsImgThenSpan ==
    \A r \in Renders :
        ret[r] /= None =>
            /\ ret[r].kind = "normal"
            /\ ret[r].value /= Null
            /\ ret[r].value.type = "Fragment"
            /\ Len(ret[r].value.children) = 2
            /\ ret[r].value.children[1].type = "img"
            /\ ret[r].value.children[1].props.src = AvatarUrl
            /\ IsAbsoluteUrl(ret[r].value.children[1].props.src)
            /\ ret[r].value.children[2].type = "span"
            /\ ret[r].value.children[2].children = << BoldName >>

(* A render has called LogoWithThumbnail and holds what it returned. *)
C4_Witness ==
    \E r \in Renders :
        /\ pc[r] = "done"
        /\ ret[r] /= None
        /\ out[r].logo = ret[r].value

(* The values the calls of LogoWithThumbnail returned agree. *)
CallsAgree ==
    \A r1, r2 \in Renders :
        (ret[r1] /= None /\ ret[r2] /= None) => ret[r1] = ret[r2]

(* The step in which render r calls the component leaves the loaded        *)
(* module, the configuration, the request and every other render as they   *)
(* were, and does not touch what r had read.                               *)
CallChangesNoState ==
    \A r \in Renders :
        (pc[r] = "render" /\ pc'[r] /= "render" /\ ret'[r] /= None) =>
            /\ UNCHANGED << loaded, config, route, matched, local >>
            /\ \A q \in Renders \ { r } :
                   pc'[q] = pc[q] /\ ret'[q] = ret[q] /\ out'[q] = out[q]

(* C5: LogoWithThumbnail has no state and no I/O: calls made in any two    *)
(* program states return structurally equal output, and a call changes no  *)
(* state outside the render that makes it.                                 *)
C5_LogoIsStateless == [] CallsAgree /\ [][CallChangesNoState]_vars

(* Two renders hold the value of their own call, made at different times. *)
C5_Witness ==
    /\ NumRenders >= 2
    /\ ret[1] /= None /\ ret[2] /= None
    /\ pc[1] = "done" /\ pc[2] = "done"
    /\ matched = { Page_github_index }

(***************************************************************************)
(* Properties of the loaded configuration and of renders                   *)
(***************************************************************************)
(* Once loaded, config is the literal of the loaded definition. *)
ConfigIsTheLiteral ==
    loaded \in Definitions => config = ConfigLiteral(loaded)

(* No step assigns to a loaded config or loads another module. *)
ConfigIsNeverAssigned ==
    loaded \in Definitions => (config' = config /\ loaded' = loaded)

(* C6: the theme configuration is static data set once: after the module   *)
(* is loaded, config holds the literal of its definition, and no read or   *)
(* render assigns to config or to one of its fields.                       *)
C6_ConfigIsStatic == [] ConfigIsTheLiteral /\ [][ConfigIsNeverAssigned]_vars

(* Every render has read the configuration and rendered the logo. *)
C6_Witness ==
    /\ loaded = "hosting.mdx:120"
    /\ \A r \in Renders : pc[r] = "done" /\ local[r] = config

(* The output of a render that runs alone once the module is loaded. *)
SequentialOutput ==
    [ logo   |-> RenderElement(ConfigLiteral(loaded).logo),
      footer |-> ConfigLiteral(loaded).footer.text ]

(* C7: renders share no mutable state: in every interleaving a finished    *)
(* render holds the output it has when renders run one after another, and  *)
(* a render that has started can always take its next step, whatever the   *)
(* other renders do.                                                       *)
C7_RendersDoNotInterfere ==
    \A r \in Renders :
        /\ pc[r] = "done" => out[r] = SequentialOutput
        /\ pc[r] = "read" => ENABLED ReadConfig(r)
        /\ pc[r] = "render" => ENABLED RenderLogo(r)

(* One render is done while another, started before it finished, is still  *)
(* between reading the configuration and rendering the logo.               *)
C7_Witness ==
    /\ loaded = "hosting.mdx:120"
    /\ \E r1, r2 \in Renders :
           /\ r1 /= r2
           /\ pc[r1] = "done" /\ ret[r1] /= None
           /\ pc[r2] = "render"

Sets(c, p) ==
    /\ p[1] \in DOMAIN c
    /\ Len(p) = 2 => p[2] \in DOMAIN c[p[1]]

(* The value configuration c gives the field at path p. *)
FieldOf(c, p) == IF Len(p) = 1 THEN c[p[1]] ELSE c[p[1]][p[2]]

SharedFields ==
    { << "logo" >>, << "footer", "text" >>, << "chat", "link" >>,
      << "project", "link" >>, << "docsRepositoryBase" >> }

(* C9: the definitions of the theme configuration agree: a field set by    *)
(* the loaded configuration and by another definition has the same value   *)
(* in both, so the value read does not depend on the definition loaded.    *)
C9_DefinitionsAgree ==
    loaded \in Definitions =>
        \A d \in Definitions : \A p \in SharedFields :
            (Sets(config, p) /\ Sets(ConfigLiteral(d), p))
                => FieldOf(config, p) = FieldOf(ConfigLiteral(d), p)

(***************************************************************************)
(* Properties of the routes                                                *)
(***************************************************************************)
(* C10: the mapping of page files to routes is injective on the pages:     *)
(* a requested route is the route of exactly one MDX file under pages,     *)
(* and that route is the file's path without the extension, with index     *)
(* standing for its directory.                                             *)
C10_RoutesAreInjective ==
    route /= NoRoute =>
        /\ Cardinality(matched) = 1
        /\ \A f \in matched : \A g \in Pages : Route(g) = route => g = f
        /\ ~ HasSuffix(route, MdxExt)
        /\ ~ HasSuffix(route, << "/" >> \o IndexName)
        /\ \A f \in matched :
               \/ route = << "/" >> /\ f = IndexName \o MdxExt
               \/ f = Tail(route) \o MdxExt
               \/ f = Tail(route) \o << "/" >> \o IndexName \o MdxExt

(* The route /github is requested and resolves to github/index.mdx. *)
C10_Witness ==
    /\ route = << "/", "g", "i", "t", "h", "u", "b" >>
    /\ matched = { Page_github_index }

(***************************************************************************)
(* The component against the inline logo, the repository links, the avatar *)
(***************************************************************************)
(* The logo element of the first definition of src/theme.config.tsx. *)
ThemeLogo == ConfigLiteral("theme.config.tsx:4").logo

(* C11: LogoWithThumbnail extends the inline logo of theme.config.tsx      *)
(* without changing it: the <span> a call returns is structurally equal to *)
(* that logo (fontSize 'xx-large', one bold child "Athar Faridi"), and the *)
(* returned children are that logo with only an <img> placed before it.    *)
C11_LogoExtendsInlineLogo ==
    \A r \in Renders :
        ret[r] /= None =>
            LET kids == ret[r].value.children
            IN  /\ Len(kids) >= 1
                /\ kids[Len(kids)] = ThemeLogo
                /\ kids[Len(kids)].props.style.fontSize = "xx-large"
                /\ kids[Len(kids)].children = << BoldName >>
                /\ Tail(kids) = << ThemeLogo >>
                /\ Head(kids).type = "img"
                /\ \A d \in ThemeDefinitions : ConfigLiteral(d).logo = kids[Len(kids)]

(* A render under the definition of hosting.mdx has put the value of its   *)
(* call into its output, while the inline logo is what it differs from.    *)
C11_Witness ==
    /\ loaded = "hosting.mdx:120"
    /\ \E r \in Renders :
           /\ pc[r] = "done"
           /\ ret[r] /= None
           /\ out[r].logo /= ThemeLogo
           /\ out[r].logo.children[2] = ThemeLogo

GithubProfileUrl ==
    << "h", "t", "t", "p", "s", ":", "/", "/", "g", "i", "t", "h", "u", "b", ".", "c", "o",
       "m", "/", "a", "t", "h", "a", "r", "e", "f", "a", "r", "i", "d", "i" >>

(* c sets both project.link and docsRepositoryBase. *)
SetsBothLinks(c) ==
    /\ { "project", "docsRepositoryBase" } \subseteq DOMAIN c
    /\ "link" \in DOMAIN c.project

(* C12: in every definition that sets both project.link and                *)
(* docsRepositoryBase, the two hold the same URL,                          *)
(* 'https://github.com/atharefaridi', in the loaded configuration and in   *)
(* the configuration a render has read.                                    *)
C12_ProjectLinkIsRepositoryBase ==
    /\ (loaded \in Definitions /\ SetsBothLinks(config)) =>
           /\ config.project.link = config.docsRepositoryBase
           /\ config.project.link = GithubProfileUrl
    /\ \A r \in Renders :
           (local[r] /= None /\ SetsBothLinks(local[r])) =>
               /\ local[r].project.link = local[r].docsRepositoryBase
               /\ local[r].docsRepositoryBase = GithubProfileUrl

(* A render has read a configuration that sets both fields, under the      *)
(* second definition of src/theme.config.tsx.                              *)
C12_Witness ==
    /\ loaded = "theme.config.tsx:23"
    /\ \E r \in Renders :
           /\ pc[r] = "render"
           /\ SetsBothLinks(local[r])
           /\ local[r].docsRepositoryBase = GithubProfileUrl

(* C13: the avatar <img> a call of LogoWithThumbnail returns is styled as  *)
(* a circle of fixed size: width and height are equal, both '50px',        *)
(* borderRadius is '50%' and objectFit is 'cover', in every render.        *)
C13_AvatarIsFixedCircle ==
    \A r \in Renders :
        ret[r] /= None =>
            LET img == Head(ret[r].value.children)
            IN  /\ img.type = "img"
                /\ img.props.style.width = img.props.style.height
                /\ img.props.style.width = "50px"
                /\ img.props.style.height = "50px"
                /\ img.props.style.borderRadius = "50%"
                /\ img.props.style.objectFit = "cover"

(* Every render holds an avatar image returned by a call of its own. *)
C13_Witness ==
    \A r \in Renders :
        /\ ret[r] /= None
        /\ out[r] /= None
        /\ Head(out[r].logo.children).type = "img"

====
